---- MODULE Spec2Model ----
(***************************************************************************)
(* Model of the two OCI functions of fun-oci-functions-part3:              *)
(*   functions-code/TextAnomalyDetectionForApiGateway/func.py  (handler)   *)
(*   functions-code/TextAnomalyDetectionForApiGateway/oci_utils/*.py       *)
(*   functions-code/ApiKeyAuthentication/func.py                           *)
(*                                                                         *)
(* Conventions.                                                            *)
(*  - A Python str is a sequence of tokens; a token is a TLA+ string that  *)
(*    holds no '/' and no '.' unless it is exactly "/" or ".", or it is a  *)
(*    literal of the program text.  Concatenation is \o.                   *)
(*  - An Optional value is a sequence of length <= 1: None is <<>> and a   *)
(*    value v is <<v>>.                                                    *)
(*  - Confidences and coordinates are integers in units of 1/10000.        *)
(*  - Each invocation of handler has a frame (its local variables, its     *)
(*    position pc, the external calls it made, what it logged at ERROR     *)
(*    level or from the except clause, and its result).                    *)
(***************************************************************************)
EXTENDS Integers, Sequences, FiniteSets, TLC

VARIABLES frame, used_uuids, clock

vars == <<frame, used_uuids, clock>>

-----------------------------------------------------------------------------
(* Bounds of the model *)

\* longest word sequence a detection result carries
MaxWords == 2
\* number of identifiers uuid.uuid4() can hand out
NumUuids == 2
\* the clock runs from 0 to MaxClock minutes
MaxClock == 1

-----------------------------------------------------------------------------
(* Optional values and generic helpers *)

None == <<>>
Some(v) == <<v>>
IsNone(o) == o = <<>>

\* s occurs in t as a contiguous run of tokens (Python: s in t)
Contains(t, s) ==
    \E k \in 0..(Len(t) - Len(s)) : SubSeq(t, k + 1, k + Len(s)) = s

\* str() of an int, as one token
IntStr(n) == <<ToString(n)>>

-----------------------------------------------------------------------------
(* posixpath.splitext and mimetypes.guess_type, as called by               *)
(* url_utils.get_image_content_type                                        *)

\* str.rfind('.') + 1 : position of the last "." token, 0 if there is none
RFindDot(p) ==
    LET dots == {k \in 1..Len(p) : p[k] = "."}
    IN  IF dots = {} THEN 0 ELSE CHOOSE k \in dots : \A j \in dots : j <= k

\* posixpath.splitext on a name without '/': <<root, ext>>; the extension
\* starts at the last dot unless only dots precede it
splitext(p) ==
    LET dotIndex == RFindDot(p)
    IN  IF dotIndex > 0 /\ \E k \in 1..(dotIndex - 1) : p[k] /= "."
        THEN <<SubSeq(p, 1, dotIndex - 1), SubSeq(p, dotIndex, Len(p))>>
        ELSE <<p, <<>>>>

\* str.lower() on the tokens the model uses
LowerToken(t) ==
    CASE t = "PNG"  -> "png"
      [] t = "JPG"  -> "jpg"
      [] t = "JPEG" -> "jpeg"
      [] t = "GIF"  -> "gif"
      [] OTHER      -> t

lower(s) == [k \in 1..Len(s) |-> LowerToken(s[k])]

\* mimetypes.suffix_map (keys are looked up lower-cased)
suffix_map(ext) ==
    CASE ext = <<".", "svgz">> -> Some(<<".", "svg", ".", "gz">>)
      [] ext = <<".", "tgz">>  -> Some(<<".", "tar", ".", "gz">>)
      [] ext = <<".", "taz">>  -> Some(<<".", "tar", ".", "gz">>)
      [] ext = <<".", "tz">>   -> Some(<<".", "tar", ".", "gz">>)
      [] ext = <<".", "tbz2">> -> Some(<<".", "tar", ".", "bz2">>)
      [] ext = <<".", "txz">>  -> Some(<<".", "tar", ".", "xz">>)
      [] OTHER                 -> None

\* mimetypes.encodings_map (case sensitive)
encodings_map(ext) ==
    CASE ext = <<".", "gz">>  -> Some("gzip")
      [] ext = <<".", "Z">>   -> Some("compress")
      [] ext = <<".", "bz2">> -> Some("bzip2")
      [] ext = <<".", "xz">>  -> Some("xz")
      [] ext = <<".", "br">>  -> Some("br")
      [] OTHER                -> None

\* mimetypes.types_map (strict), restricted to the image types and to the
\* types the suffix_map targets reach
types_map(ext) ==
    CASE ext = <<".", "jpg">>  -> Some("image/jpeg")
      [] ext = <<".", "jpe">>  -> Some("image/jpeg")
      [] ext = <<".", "jpeg">> -> Some("image/jpeg")
      [] ext = <<".", "png">>  -> Some("image/png")
      [] ext = <<".", "gif">>  -> Some("image/gif")
      [] ext = <<".", "svg">>  -> Some("image/svg+xml")
      [] ext = <<".", "tar">>  -> Some("application/x-tar")
      [] OTHER                 -> None

\* mimetypes.guess_type(name)[0] for a name without a URL scheme: the
\* suffix_map rewrite (its targets are not suffix_map keys, so the loop runs
\* at most once), then the encoding suffix is dropped, then the lower-cased
\* extension is looked up
guess_type(name) ==
    LET s0 == splitext(name)
        s1 == IF IsNone(suffix_map(lower(s0[2]))) THEN s0
              ELSE splitext(s0[1] \o suffix_map(lower(s0[2]))[1])
        s2 == IF IsNone(encodings_map(s1[2])) THEN s1 ELSE splitext(s1[1])
    IN  types_map(lower(s2[2]))

\* url_utils.get_image_content_type
get_image_content_type(filename) ==
    LET mime_type == guess_type(filename)
    IN  IF mime_type = Some("image/jpeg") THEN Some("image/jpeg")
        ELSE IF mime_type = Some("image/png") THEN Some("image/png")
        ELSE None

\* url.split('/')[-1] : the tokens after the last "/" token
LastSegment(url) ==
    LET slashes == {k \in 1..Len(url) : url[k] = "/"}
        last == IF slashes = {} THEN 0
                ELSE CHOOSE k \in slashes : \A j \in slashes : j <= k
    IN  SubSeq(url, last + 1, Len(url))

-----------------------------------------------------------------------------
(* json.dumps on the values the handlers pass to it.  A quote inside a str *)
(* is its own token; the tokens of the model hold no backslash or control  *)
(* character, so the quote is the only character escaped.                  *)

\* Python values handed to json.dumps: a str, or a dict of str -> Optional str
PyStr(s) == [type |-> "str", str |-> s, items |-> <<>>]
PyDict(items) == [type |-> "dict", str |-> <<>>, items |-> items]
Item(k, v) == [key |-> k, value |-> v]

\* json.dumps writes a quote inside a str as \"
JsonEscape(t) == IF t = "\"" THEN "\\\"" ELSE t

JsonString(s) == <<"\"">> \o [k \in 1..Len(s) |-> JsonEscape(s[k])] \o <<"\"">>

JsonValue(o) == IF IsNone(o) THEN <<"null">> ELSE JsonString(o[1])

RECURSIVE JsonItems(_)
JsonItems(items) ==
    IF items = <<>> THEN <<>>
    ELSE JsonString(<<items[1].key>>) \o <<": ">> \o JsonValue(items[1].value)
         \o (IF Len(items) > 1 THEN <<", ">> ELSE <<>>)
         \o JsonItems(Tail(items))

json_dumps(v) ==
    IF v.type = "str" THEN JsonString(v.str)
    ELSE <<"{">> \o JsonItems(v.items) \o <<"}">>

-----------------------------------------------------------------------------
(* Program constants of TextAnomalyDetectionForApiGateway/func.py          *)

\* default of prepare_response's status_code parameter
DefaultStatusCode == 200
\* status_code of generate_error_response
ErrorStatusCode == 400
\* status_code of the "all words are clear" response
NoContentStatusCode == 204
\* the status every stage compares with
HttpOk == 200
\* default confidence_level 0.90, in units of 1/10000
DefaultConfidenceLevel == 9000
\* timedelta(hours=1), in minutes
ParLifetimeMinutes == 60

bucket_name == <<"fun_oci_functions_bucket">>
namespace == <<"idsvv7k2bdum">>
compartment_id == <<"ocid1", ".", "compartment", ".", "oc1", ".", ".", "zzz">>
fn_ocid == <<"ocid1", ".", "fnfunc", ".", "oc1", ".", "iad", ".", ".", "zzz">>
fontfile_name == <<"part3/", "Monoton", ".", "zip">>
template_name == <<"part3/", "TextAnomalyTemplate", ".", "docx">>

-----------------------------------------------------------------------------
(* Results of an invocation and the frame of its local variables *)

NoResult ==
    [kind |-> "none", status_code |-> 0, response_data |-> <<>>,
     content_type |-> "", exception |-> ""]

\* func.prepare_response: an fdk Response with the JSON text of the payload
prepare_response(response_payload, status_code) ==
    [kind |-> "response", status_code |-> status_code,
     response_data |-> json_dumps(response_payload),
     content_type |-> "application/json", exception |-> ""]

\* return <resp> from handler
Return(f, resp) == [f EXCEPT !.pc = "done", !.result = resp]

LogEntry(level, message) == [level |-> level, message |-> message]

\* func.generate_error_response, returned from handler
generate_error_response(f, error_message) ==
    Return([f EXCEPT !.log = Append(@, LogEntry("ERROR", error_message))],
           prepare_response(PyDict(<<Item("message", Some(error_message))>>),
                            ErrorStatusCode))

\* the except clause without its raise: the exception is logged and handler
\* falls off its end
Raise_without_raise(f, ex) ==
    [f EXCEPT !.pc = "done",
              !.log = Append(@, LogEntry("INFO", <<"Error in handler: ", ex>>))]

\* the except clause answering 400 instead of raising again
Raise_as_error_response(f, ex) == generate_error_response(f, <<ex>>)

\* the except clause of handler: the exception is logged and raised again
Raise(f, ex) ==
    [f EXCEPT !.pc = "done",
              !.log = Append(@, LogEntry("INFO", <<"Error in handler: ", ex>>)),
              !.result = [kind |-> "raise", status_code |-> 0,
                          response_data |-> <<>>, content_type |-> "",
                          exception |-> ex]]

\* one external call, with its arguments and whether it raised
Call(op) ==
    [op |-> op, raised |-> FALSE, url |-> <<>>, object_name |-> <<>>,
     content_type |-> None, file_content |-> "", payload |-> None,
     par_details |-> None]

NoData == [kind |-> "none", url |-> <<>>]
NoDetectResponse == [has_image_text |-> FALSE, words |-> <<>>]
NoFunctionResponse ==
    [status_code |-> 0, decodable |-> TRUE, json |-> "invalid", code |-> None]

InitFrame ==
    [pc |-> "start", data |-> NoData, url |-> <<>>,
     url_status_code |-> 0, file_name |-> <<>>, content_type |-> None,
     image_name |-> <<>>, object_storage_response |-> 0,
     detect_text_response |-> NoDetectResponse,
     response |-> NoFunctionResponse,
     par_status_code |-> 0, par_full_path |-> None,
     calls |-> <<>>, log |-> <<>>, result |-> NoResult]

-----------------------------------------------------------------------------
(* Pure functions of func.py *)

\* detect_text_response.get("image_text", {}).get("words", [])
WordsOf(detect_text_response) ==
    IF detect_text_response.has_image_text
    THEN detect_text_response.words ELSE <<>>

\* the evaluator with the default level written for its second argument
all_texts_are_clear_at_default_level(detect_text_response, confidence_level) ==
    LET words == WordsOf(detect_text_response)
    IN  \A k \in 1..Len(words) : words[k].confidence >= DefaultConfidenceLevel

\* the evaluator with > written for >=
all_texts_are_clear_strictly_above(detect_text_response, confidence_level) ==
    LET words == WordsOf(detect_text_response)
    IN  \A k \in 1..Len(words) : words[k].confidence > confidence_level

\* func.all_texts_are_clear_in_the_image
all_texts_are_clear_in_the_image(detect_text_response, confidence_level) ==
    LET words == WordsOf(detect_text_response)
    IN  \A k \in 1..Len(words) : words[k].confidence >= confidence_level

\* round(n / d) cutting the digits off (decimal.ROUND_DOWN)
PyRound_down(n, d) == n \div d

\* round(n / d) for n >= 0: the nearest integer, a tie going to the even one
\* (the inputs the model enumerates are no ties of the binary floats)
PyRound(n, d) ==
    LET q == n \div d
        r == n % d
    IN  IF 2 * r > d \/ (2 * r = d /\ q % 2 = 1) THEN q + 1 ELSE q

\* one entry of data_content["words"]: confidence in tenths of a percent,
\* the first and third vertex in hundredths
DocGenWord(word) ==
    LET vertices == word.bounding_polygon.normalized_vertices
    IN  [word |-> word.text,
         confidence |-> PyRound(word.confidence, 10),
         corner1 |-> [x |-> PyRound(vertices[1].x, 100),
                      y |-> PyRound(vertices[1].y, 100)],
         corner3 |-> [x |-> PyRound(vertices[3].x, 100),
                      y |-> PyRound(vertices[3].y, 100)]]

\* the builder reporting only the words below the default confidence level
generate_doc_gen_data_content_of_unclear_words(detect_text_response, bucket, ns, object_name) ==
    LET words == SelectSeq(WordsOf(detect_text_response),
                           LAMBDA w : w.confidence < 9000)
    IN  [image_with_anomalies |->
             [source |-> "OBJECT_STORAGE", objectName |-> object_name,
              namespace |-> ns, bucketName |-> bucket,
              mediaType |-> "image/png", height |-> "450px"],
         words |-> [k \in 1..Len(words) |-> DocGenWord(words[k])]]

\* func.generate_doc_gen_data_content_from_ai_response
generate_doc_gen_data_content_from_ai_response(detect_text_response, bucket, ns, object_name) ==
    LET words == WordsOf(detect_text_response)
    IN  [image_with_anomalies |->
             [source |-> "OBJECT_STORAGE", objectName |-> object_name,
              namespace |-> ns, bucketName |-> bucket,
              mediaType |-> "image/png", height |-> "450px"],
         words |-> [k \in 1..Len(words) |-> DocGenWord(words[k])]]

\* oci_utils.oci_document_generator.build_output_pdf_name: the report's key,
\* derived from the image's key
build_output_pdf_name(object_name) == object_name \o <<".", "pdf">>

\* oci_utils.oci_document_generator.prepare_document_generator_payload
prepare_document_generator_payload(data_content, ns, bucket, object_name, fontfile, template) ==
    [data |-> data_content, namespace |-> ns, bucketName |-> bucket,
     output |-> build_output_pdf_name(object_name),
     fontfile |-> fontfile, template |-> template]

\* oci_object_storage.create_read_only_object_par builds these details
ParDetails(par_name, object_name, object_expiry_time) ==
    [name |-> par_name, access_type |-> "ObjectRead",
     bucket_listing_action |-> "Deny", object_name |-> object_name,
     time_expires |-> object_expiry_time]

\* ... and returns response.data.full_path if response.data and
\* response.data.full_path else None
ParFullPath(o) ==
    IF o.has_data /\ ~IsNone(o.full_path) /\ o.full_path[1] /= <<>>
    THEN o.full_path ELSE None

-----------------------------------------------------------------------------
(* The steps of func.handler.  Each takes the frame f of the invocation    *)
(* and what the environment answers, and gives the frame after the step.   *)

Called(f, call) == [f EXCEPT !.calls = Append(@, call)]

\* lines 128-133: no request body
handler_entry(f, data) ==
    LET g == [f EXCEPT !.data = data]
    IN  IF data.kind = "none"
        THEN Return([g EXCEPT !.log =
                        Append(@, LogEntry("ERROR", <<"No data provided">>))],
                    prepare_response(PyStr(<<"No data provided">>),
                                     DefaultStatusCode))
        ELSE [g EXCEPT !.pc = "parse_input"]

\* lines 139-146: json.loads(data.getvalue()) and payload["url"]
parse_input(f) ==
    CASE f.data.kind = "invalid_json"    -> Raise(f, "JSONDecodeError")
      [] f.data.kind = "json_not_object" -> Raise(f, "TypeError")
      [] f.data.kind = "object_no_url"   -> Raise(f, "KeyError")
      [] OTHER -> [f EXCEPT !.url = f.data.url, !.pc = "fetch"]

\* lines 153-157 without the check of the fetch's status
check_fetched_without_status(h) ==
    IF h.content_type /= Some("image/jpeg")
       /\ h.content_type /= Some("image/png")
    THEN generate_error_response(h,
             <<"Failed to retrieve a jpeg or png image from '">> \o h.url
             \o <<"'.">>)
    ELSE [h EXCEPT !.pc = "store"]

\* lines 153-157 without the check of the content type
check_fetched_without_content_type(h) ==
    IF h.url_status_code /= 200
    THEN generate_error_response(h,
             <<"Failed to retrieve the file from '">> \o h.url
             \o <<"'. Status code: ">> \o IntStr(h.url_status_code))
    ELSE [h EXCEPT !.pc = "store"]

\* lines 153-157: the checks on what get_image_data_from_url returned
check_fetched(h) ==
    IF h.url_status_code /= HttpOk
    THEN generate_error_response(h,
             <<"Failed to retrieve the file from '">> \o h.url
             \o <<"'. Status code: ">> \o IntStr(h.url_status_code))
    ELSE IF h.content_type /= Some("image/jpeg")
            /\ h.content_type /= Some("image/png")
    THEN generate_error_response(h,
             <<"Failed to retrieve a jpeg or png image from '">> \o h.url
             \o <<"'.">>)
    ELSE [h EXCEPT !.pc = "store"]

\* line 151 with url_utils.get_image_data_from_url (the file name is taken
\* from the URL, then requests.get is called, then the content type is
\* guessed): o is the answer of requests.get
fetch_image(f, o) ==
    LET file_name == LastSegment(f.url)
        g == Called(f, [Call("requests.get") EXCEPT !.url = f.url,
                                                   !.raised = o.raises])
        h == [g EXCEPT !.url_status_code = o.status_code,
                       !.file_name = file_name,
                       !.content_type = get_image_content_type(file_name)]
    IN  IF o.raises THEN Raise(g, "RequestException") ELSE check_fetched(h)

\* line 162 without the uuid4: "part3/" + file_name
ImageName_without_uuid(u, file_name) == <<"part3/">> \o file_name

\* line 162: "part3/" + str(uuid.uuid4()) + "-" + file_name
ImageName(u, file_name) == <<"part3/", ToString(u), "-">> \o file_name

\* lines 170-174 going back to the upload when its status is not 200
check_stored_with_retry(h) ==
    IF h.object_storage_response /= HttpOk
    THEN [h EXCEPT !.pc = "store"]
    ELSE [h EXCEPT !.pc = "detect"]

\* lines 170-174 without the check of the upload's status
check_stored_without_status(h) == [h EXCEPT !.pc = "detect"]

\* lines 170-174: the check on the status put_object returned
check_stored(h) ==
    IF h.object_storage_response /= HttpOk
    THEN generate_error_response(h,
             <<"Image ">> \o h.image_name \o <<" storing in Bucket ">>
             \o bucket_name \o <<" failed with status code ">>
             \o IntStr(h.object_storage_response) \o <<".">>)
    ELSE [h EXCEPT !.pc = "detect"]

\* lines 162-168 with oci_object_storage.put_file_to_object_storage_image:
\* u is the identifier uuid4 gives, o the answer of put_object
store_image(f, u, o) ==
    LET image_name == ImageName(u, f.file_name)
        g == Called([f EXCEPT !.image_name = image_name],
                    [Call("put_object") EXCEPT
                        !.object_name = image_name,
                        !.content_type = f.content_type,
                        !.file_content = "file_content",
                        !.raised = o.raises])
        h == [g EXCEPT !.object_storage_response = o.status]
    IN  IF o.raises THEN Raise(g, "ServiceError") ELSE check_stored(h)

\* lines 186-195: are all the detected words clear
check_anomalies(h) ==
    IF all_texts_are_clear_in_the_image(h.detect_text_response,
                                        DefaultConfidenceLevel)
    THEN Return(h, prepare_response(
             PyDict(<<Item("message", Some(
                 <<"All Words are clear in Image: ", "\"">> \o h.image_name
                 \o <<"\"", " from Bucket: ", "\"">> \o bucket_name
                 \o <<"\"", " in Namespace: ", "\"">> \o namespace
                 \o <<"\"">>))>>),
             NoContentStatusCode))
    ELSE [h EXCEPT !.pc = "report"]

\* lines 179-180: o is the answer of detect_text_from_oject_storage_image
detect_text(f, o) ==
    LET g == Called(f, [Call("detect_text") EXCEPT
                           !.object_name = f.image_name,
                           !.raised = o.raises])
        h == [g EXCEPT !.detect_text_response = o.response]
    IN  IF o.raises THEN Raise(g, "ServiceError") ELSE check_anomalies(h)

\* f"{app_response_code}"
CodeStr(code) == IF IsNone(code) THEN <<"None">> ELSE IntStr(code[1])

\* lines 211-221 with the application code left unread
check_document_without_code(h) ==
    IF ~h.response.decodable THEN Raise(h, "UnicodeDecodeError")
    ELSE IF h.response.status_code = 200
    THEN CASE h.response.json = "invalid" -> Raise(h, "JSONDecodeError")
           [] h.response.json = "not_object" -> Raise(h, "AttributeError")
           [] OTHER -> [h EXCEPT !.pc = "par"]
    ELSE [h EXCEPT !.pc = "par"]

\* lines 211-221: the body is decoded; when the function's HTTP status is
\* 200 the body is parsed and its "code" compared with 200; with any other
\* HTTP status the handler goes on to step 7
check_document(h) ==
    IF ~h.response.decodable THEN Raise(h, "UnicodeDecodeError")
    ELSE IF h.response.status_code = HttpOk
    THEN CASE h.response.json = "invalid" -> Raise(h, "JSONDecodeError")
           [] h.response.json = "not_object" -> Raise(h, "AttributeError")
           [] OTHER ->
                IF h.response.code = Some(HttpOk)
                THEN [h EXCEPT !.pc = "par"]
                ELSE generate_error_response(h,
                         <<"Document generation failure: '">>
                         \o CodeStr(h.response.code)
                         \o <<"'. See Application Log">>)
    ELSE [h EXCEPT !.pc = "par"]

\* lines 202-210: o is the answer of invoke_function
generate_report(f, o) ==
    LET data_content ==
            generate_doc_gen_data_content_from_ai_response(
                f.detect_text_response, bucket_name, namespace, f.image_name)
        doc_gen_fn_payload ==
            prepare_document_generator_payload(
                data_content, namespace, bucket_name, f.image_name,
                fontfile_name, template_name)
        g == Called(f, [Call("invoke_function") EXCEPT
                           !.payload = Some(doc_gen_fn_payload),
                           !.raised = o.raises])
        h == [g EXCEPT !.response = o.response]
    IN  IF o.raises THEN Raise(g, "ServiceError") ELSE check_document(h)

\* lines 234-247 without the check of the PAR's status
check_par_without_status(h) ==
    Return(h, prepare_response(
        PyDict(<<Item("inputUrl", Some(h.url)),
                 Item("reportWithAnomalies", h.par_full_path)>>),
        DefaultStatusCode))

\* lines 234-247: the check on the PAR's status, and the final response
check_par(h) ==
    IF h.par_status_code /= HttpOk
    THEN generate_error_response(h,
             <<"PAR generation error. Status code: ">>
             \o IntStr(h.par_status_code))
    ELSE Return(h, prepare_response(
             PyDict(<<Item("inputUrl", Some(h.url)),
                      Item("reportWithAnomalies", h.par_full_path)>>),
             DefaultStatusCode))

\* lines 226-232 with datetime.utcnow() passed as the expiry time
create_par_expiring_now(f, now, o) ==
    LET par_details ==
            ParDetails(<<"PAR_for_report">>,
                       build_output_pdf_name(f.image_name), now)
        g == Called(f, [Call("create_preauthenticated_request") EXCEPT
                           !.object_name = par_details.object_name,
                           !.par_details = Some(par_details),
                           !.raised = o.raises])
        h == [g EXCEPT !.par_status_code = o.status,
                       !.par_full_path = ParFullPath(o)]
    IN  IF o.raises THEN Raise(g, "ServiceError") ELSE check_par(h)

\* lines 226-232 with oci_object_storage.create_read_only_object_par: now is
\* datetime.utcnow(), o the answer of create_preauthenticated_request
create_par(f, now, o) ==
    LET par_details ==
            ParDetails(<<"PAR_for_report">>,
                       build_output_pdf_name(f.image_name),
                       now + ParLifetimeMinutes)
        g == Called(f, [Call("create_preauthenticated_request") EXCEPT
                           !.object_name = par_details.object_name,
                           !.par_details = Some(par_details),
                           !.raised = o.raises])
        h == [g EXCEPT !.par_status_code = o.status,
                       !.par_full_path = ParFullPath(o)]
    IN  IF o.raises THEN Raise(g, "ServiceError") ELSE check_par(h)

-----------------------------------------------------------------------------
(* What the caller and the external services can hand to an invocation *)

UrlPrefix == <<"https:", "/", "/", "host", "/", "images", "/">>

FileNames ==
    { <<"photo", ".", "png">>, <<"photo", ".", "jpg">>,
      <<"photo", ".", "jpeg">>, <<"photo", ".", "jpe">>,
      <<"photo", ".", "PNG">>, <<"photo", ".", "png", ".", "gz">>,
      <<"photo", ".", "gif">>, <<"photo">>, <<".", "png">>, <<>> }

Urls == {UrlPrefix \o n : n \in FileNames}

\* request bodies: absent, not JSON, JSON that is no object, an object
\* without "url", an object whose "url" is a str
Datas ==
    {[kind |-> k, url |-> <<>>] :
        k \in {"none", "invalid_json", "json_not_object", "object_no_url"}}
    \cup {[kind |-> "object", url |-> u] : u \in Urls}

FetchAnswers ==
    {[raises |-> TRUE, status_code |-> 0]}
    \cup {[raises |-> FALSE, status_code |-> c] : c \in {200, 404, 500}}

PutAnswers ==
    {[raises |-> TRUE, status |-> 0]}
    \cup {[raises |-> FALSE, status |-> c] : c \in {200, 500}}

\* the polygon of a detected word: four normalized vertices
Polygon ==
    [normalized_vertices |->
        << [x |-> 1234, y |-> 2071], [x |-> 4567, y |-> 2071],
           [x |-> 4567, y |-> 3388], [x |-> 1234, y |-> 3388] >>]

Confidences == {5000, 8234, 9000, 9500}

Words ==
    {[text |-> "STOP", confidence |-> c, bounding_polygon |-> Polygon] :
        c \in Confidences}

RECURSIVE SeqsUpTo(_, _)
SeqsUpTo(S, n) ==
    IF n = 0 THEN {<<>>}
    ELSE LET shorter == SeqsUpTo(S, n - 1)
         IN  shorter \cup {Append(q, x) : q \in shorter, x \in S}

DetectResponses ==
    {NoDetectResponse}
    \cup {[has_image_text |-> TRUE, words |-> w] : w \in SeqsUpTo(Words, MaxWords)}

DetectAnswers ==
    {[raises |-> TRUE, response |-> NoDetectResponse]}
    \cup {[raises |-> FALSE, response |-> r] : r \in DetectResponses}

\* the body of the document generator's answer: bytes that are no UTF-8,
\* text that is no JSON, JSON that is no object, an object without "code",
\* an object with a "code"
FunctionResponses ==
    {[status_code |-> c, decodable |-> FALSE, json |-> "invalid", code |-> None] :
        c \in {200, 500}}
    \cup {[status_code |-> c, decodable |-> TRUE, json |-> j, code |-> None] :
            c \in {200, 500}, j \in {"invalid", "not_object", "object"}}
    \cup {[status_code |-> c, decodable |-> TRUE, json |-> "object",
           code |-> Some(a)] : c \in {200, 500}, a \in {200, 500}}

InvokeAnswers ==
    {[raises |-> TRUE, response |-> NoFunctionResponse]}
    \cup {[raises |-> FALSE, response |-> r] : r \in FunctionResponses}

ParLink == <<"https:", "/", "/", "objectstorage", "/", "p", "/", "token">>

\* create_preauthenticated_request: it raises, or answers with a status and
\* with no data, an empty full_path, or a link
ParAnswers ==
    {[raises |-> TRUE, status |-> 0, has_data |-> FALSE, full_path |-> None]}
    \cup {[raises |-> FALSE, status |-> c, has_data |-> FALSE, full_path |-> None] :
            c \in {200, 500}}
    \cup {[raises |-> FALSE, status |-> c, has_data |-> TRUE, full_path |-> p] :
            c \in {200, 500}, p \in {None, Some(<<>>), Some(ParLink)}}

-----------------------------------------------------------------------------
(* Actions: some invocation i of handler takes its next step *)

Step(i, g) ==
    /\ frame' = [frame EXCEPT ![i] = g]
    /\ UNCHANGED <<used_uuids, clock>>

Invoke ==
    \E i \in DOMAIN frame :
        /\ frame[i].pc = "start"
        /\ \E data \in Datas : Step(i, handler_entry(frame[i], data))

ParseInput ==
    \E i \in DOMAIN frame :
        /\ frame[i].pc = "parse_input"
        /\ Step(i, parse_input(frame[i]))

FetchImage ==
    \E i \in DOMAIN frame :
        /\ frame[i].pc = "fetch"
        /\ \E o \in FetchAnswers : Step(i, fetch_image(frame[i], o))

StoreImage ==
    \E i \in DOMAIN frame :
        /\ frame[i].pc = "store"
        /\ \E u \in (1..NumUuids) \ used_uuids, o \in PutAnswers :
              /\ frame' = [frame EXCEPT ![i] = store_image(frame[i], u, o)]
              /\ used_uuids' = used_uuids \cup {u}
              /\ UNCHANGED clock

DetectText ==
    \E i \in DOMAIN frame :
        /\ frame[i].pc = "detect"
        /\ \E o \in DetectAnswers : Step(i, detect_text(frame[i], o))

GenerateReport ==
    \E i \in DOMAIN frame :
        /\ frame[i].pc = "report"
        /\ \E o \in InvokeAnswers : Step(i, generate_report(frame[i], o))

CreatePar ==
    \E i \in DOMAIN frame :
        /\ frame[i].pc = "par"
        /\ \E o \in ParAnswers : Step(i, create_par(frame[i], clock, o))

\* a minute passes
Tick ==
    /\ clock < MaxClock
    /\ clock' = clock + 1
    /\ UNCHANGED <<frame, used_uuids>>

Init ==
    /\ frame = <<InitFrame>>
    /\ used_uuids = {}
    /\ clock = 0

Next ==
    \/ Invoke
    \/ ParseInput
    \/ FetchImage
    \/ StoreImage
    \/ DetectText
    \/ GenerateReport
    \/ CreatePar
    \/ Tick

Spec == Init /\ [][Next]_vars

-----------------------------------------------------------------------------
(* Vocabulary of the properties *)

Frames == {frame[i] : i \in DOMAIN frame}

Done(f) == f.pc = "done"

Responded(f, status_code) ==
    /\ f.pc = "done"
    /\ f.result.kind = "response"
    /\ f.result.status_code = status_code

Made(f, op) == \E k \in 1..Len(f.calls) : f.calls[k].op = op

NumCalls(f, op) == Cardinality({k \in 1..Len(f.calls) : f.calls[k].op = op})

\* the JSON text {"message": "<message>"}
MessageObject(message) ==
    <<"{", "\"", "message", "\"", ": ", "\"">> \o message \o <<"\"", "}">>

\* the response body is a JSON object whose only member is "message"
HasMessageBody(f) ==
    LET d == f.result.response_data
    IN  /\ Len(d) > 8
        /\ SubSeq(d, 1, 6) = <<"{", "\"", "message", "\"", ": ", "\"">>
        /\ SubSeq(d, Len(d) - 1, Len(d)) = <<"\"", "}">>

\* the calls of the stages after the fetch
LaterStageOps ==
    {"put_object", "detect_text", "invoke_function",
     "create_preauthenticated_request"}

\* requests.get answered (it did not raise)
FetchReturned(f) == f.url_status_code /= 0
\* put_object answered
PutReturned(f) == f.object_storage_response /= 0
\* invoke_function answered
InvokeReturned(f) == f.response.status_code /= 0
\* create_preauthenticated_request answered
ParReturned(f) == f.par_status_code /= 0
\* the text detection answered: it was called and the handler went on
DetectReturned(f) ==
    /\ Made(f, "detect_text")
    /\ ~(f.result.kind = "raise" /\ f.calls[Len(f.calls)].op = "detect_text")

-----------------------------------------------------------------------------
(* C1: invoked with no request body, the handler ends with status 400 and  *)
(* the JSON object {"message": "No data provided"}, and makes no external  *)
(* call.  The code answers with status 200 and the JSON string             *)
(* "No data provided".                                                     *)
C1_NoDataAnswers400 ==
    \A f \in Frames :
        (Done(f) /\ f.data.kind = "none") =>
            /\ Responded(f, 400)
            /\ f.result.response_data = MessageObject(<<"No data provided">>)
            /\ f.calls = <<>>

(* C2: when the document generator's invocation answers with an HTTP       *)
(* status other than 200, the handler ends with a 400 response and the     *)
(* PAR is never created; the PAR is created only when the HTTP status and  *)
(* the application code are both 200.  The code checks the application     *)
(* code only under HTTP status 200 and otherwise goes on to create the PAR.*)
C2_TransportFailureStopsBeforePar ==
    \A f \in Frames :
        /\ (InvokeReturned(f) /\ f.response.decodable
                /\ f.response.status_code /= 200) =>
              /\ ~Made(f, "create_preauthenticated_request")
              /\ Responded(f, 400)
        /\ Made(f, "create_preauthenticated_request") =>
              /\ f.response.status_code = 200
              /\ f.response.code = Some(200)

(* C3: a request body that is no JSON, or that carries no "url", ends in a *)
(* 400 response with a message, not in an exception, and no external call  *)
(* is made.  The code lets JSONDecodeError and KeyError reach the except   *)
(* clause, which raises them again.                                        *)
C3_BadInputAnswers400 ==
    \A f \in Frames :
        (Done(f) /\ f.data.kind \in {"invalid_json", "object_no_url"}) =>
            /\ Responded(f, 400)
            /\ HasMessageBody(f)
            /\ f.calls = <<>>

(* C4: every 200 response returned after the PAR's creation carries the    *)
(* request's url as inputUrl and a link that is neither null nor empty as  *)
(* reportWithAnomalies, whatever create_preauthenticated_request answered. *)
(* The code returns null when the service answers 200 without a link.      *)
C4_ReportResponseCarriesLink ==
    \A f \in Frames :
        (Responded(f, 200) /\ Made(f, "create_preauthenticated_request")) =>
            f.result.response_data =
                <<"{", "\"", "inputUrl", "\"", ": ", "\"">> \o f.data.url
                \o <<"\"", ", ", "\"", "reportWithAnomalies", "\"", ": ", "\"">>
                \o ParLink \o <<"\"", "}">>

(* C5: when the document generator's invocation answers HTTP status 200   *)
(* with an application code other than 200 (500, or none at all), the      *)
(* handler ends with a 400 response whose message shows that code, and the *)
(* PAR is never created.                                                   *)
C5_AppFailureAnswers400 ==
    \A f \in Frames :
        (/\ InvokeReturned(f)
         /\ f.response.decodable
         /\ f.response.status_code = 200
         /\ f.response.json = "object"
         /\ f.response.code /= <<200>>) =>
            /\ Responded(f, 400)
            /\ HasMessageBody(f)
            /\ Contains(f.result.response_data,
                        IF f.response.code = <<>> THEN <<"None">>
                        ELSE <<ToString(f.response.code[1])>>)
            /\ ~Made(f, "create_preauthenticated_request")

C5_Witness ==
    \E f \in Frames :
        /\ Responded(f, 400)
        /\ f.response.status_code = 200
        /\ f.response.code = <<500>>
        /\ Contains(f.result.response_data, <<"500">>)

(* C6: when the fetch answers 200 for a file name guessed as jpeg or png,  *)
(* the upload answers 200 and the detection answers with words that all    *)
(* have confidence >= 0.90 (or with no word), the handler ends with status *)
(* 204 and a message body, and neither invokes the document generator nor  *)
(* creates the PAR.                                                        *)
C6_ClearImageAnswers204 ==
    \A f \in Frames :
        (/\ f.url_status_code = 200
         /\ f.content_type \in {<<"image/jpeg">>, <<"image/png">>}
         /\ f.object_storage_response = 200
         /\ DetectReturned(f)
         /\ \A k \in 1..Len(f.detect_text_response.words) :
                f.detect_text_response.words[k].confidence >= 9000) =>
            /\ Responded(f, 204)
            /\ HasMessageBody(f)
            /\ ~Made(f, "invoke_function")
            /\ ~Made(f, "create_preauthenticated_request")

C6_Witness ==
    \E f \in Frames :
        /\ Responded(f, 204)
        /\ DetectReturned(f)
        /\ \E k \in 1..Len(f.detect_text_response.words) :
               f.detect_text_response.words[k].confidence = 9000

C8_FetchFailureAnswers400 ==
    \A f \in Frames :
        (FetchReturned(f) /\ f.url_status_code /= 200) =>
            /\ Responded(f, 400)
            /\ HasMessageBody(f)
            /\ Contains(f.result.response_data, f.data.url)
            /\ Contains(f.result.response_data, <<ToString(f.url_status_code)>>)
            /\ \A op \in LaterStageOps : ~Made(f, op)

C8_Witness ==
    \E f \in Frames :
        /\ Responded(f, 400)
        /\ f.url_status_code = 404
        /\ Contains(f.result.response_data, <<"404">>)
        /\ Len(f.calls) = 1

\* the file names of FileNames that mimetypes guesses as JPEG or PNG, and
\* those it does not
GatePassNames ==
    { <<"photo", ".", "png">>, <<"photo", ".", "jpg">>,
      <<"photo", ".", "jpeg">>, <<"photo", ".", "jpe">>,
      <<"photo", ".", "PNG">>, <<"photo", ".", "png", ".", "gz">> }

GateFailNames == { <<"photo", ".", "gif">>, <<"photo">>, <<".", "png">>, <<>> }

\* the extension as the claim reads it: what follows the last dot of the
\* file name, in lower case; none when the name has no dot or only leading
\* dots (a bare .png is a name without extension)
ExtensionOf(name) ==
    LET dots == {k \in 1..Len(name) : name[k] = "."}
        last == CHOOSE k \in dots : \A j \in dots : j <= k
    IN  IF dots = {} \/ \A k \in 1..(last - 1) : name[k] = "."
        THEN <<>>
        ELSE lower(SubSeq(name, last + 1, Len(name)))

\* the handler got past the content-type gate
PassedGate(f) == f.pc = "store" \/ Made(f, "put_object")

\* the handler stopped at the gate
StoppedAtGate(f) ==
    /\ Responded(f, 400)
    /\ HasMessageBody(f)
    /\ \A op \in LaterStageOps : ~Made(f, op)

C10_UploadFailureAnswers400 ==
    \A f \in Frames :
        (PutReturned(f) /\ f.object_storage_response /= 200) =>
            /\ Responded(f, 400)
            /\ HasMessageBody(f)
            /\ \E u \in 1..NumUuids :
                  f.image_name = <<"part3/", ToString(u), "-">> \o f.file_name
            /\ f.calls[Len(f.calls)].op = "put_object"
            /\ f.calls[Len(f.calls)].object_name = f.image_name
            /\ Contains(f.result.response_data, f.image_name)
            /\ Contains(f.result.response_data, <<"fun_oci_functions_bucket">>)
            /\ \A op \in LaterStageOps \ {"put_object"} : ~Made(f, op)

C10_Witness ==
    \E f \in Frames :
        /\ Responded(f, 400)
        /\ f.object_storage_response = 500
        /\ Contains(f.result.response_data, f.image_name)
        /\ f.image_name /= <<>>

-----------------------------------------------------------------------------
\* the external call op of the invocation raised
CallRaised(f, op) ==
    \E k \in 1..Len(f.calls) : f.calls[k].op = op /\ f.calls[k].raised

(* C11: when the PAR's creation answers a status other than 200, the       *)
(* handler ends with a 400 response with a message, and returns no 200     *)
(* response and no link, even if the service sent one.                     *)
C11_ParFailureAnswers400 ==
    \A f \in Frames :
        (ParReturned(f) /\ f.par_status_code /= 200) =>
            /\ Responded(f, 400)
            /\ HasMessageBody(f)
            /\ Contains(f.result.response_data, <<ToString(f.par_status_code)>>)
            /\ ~Contains(f.result.response_data, <<"reportWithAnomalies">>)
            /\ ~Contains(f.result.response_data, ParLink)

C11_Witness ==
    \E f \in Frames :
        /\ Responded(f, 400)
        /\ f.par_status_code = 500
        /\ f.par_full_path = <<ParLink>>

(* C12: when the text detection raises, the handler logs the exception and *)
(* raises it again: the invocation ends without a response (no 200, 204 or *)
(* 400), and neither the document generator nor the PAR creation is        *)
(* called.                                                                 *)
C12_DetectionFaultPropagates ==
    \A f \in Frames :
        CallRaised(f, "detect_text") =>
            /\ Done(f)
            /\ f.result.kind = "raise"
            /\ f.result.exception = "ServiceError"
            /\ f.result.status_code \notin {200, 204, 400}
            /\ f.log = <<[level |-> "INFO",
                          message |-> <<"Error in handler: ", "ServiceError">>]>>
            /\ ~Made(f, "invoke_function")
            /\ ~Made(f, "create_preauthenticated_request")

C12_Witness ==
    \E f \in Frames :
        /\ CallRaised(f, "detect_text")
        /\ f.result.kind = "raise"
        /\ f.object_storage_response = 200
        /\ Len(f.calls) = 3

-----------------------------------------------------------------------------
(* The evaluator called on its own: a frame of                             *)
(* all_texts_are_clear_in_the_image holds its two arguments (the second    *)
(* one absent when the caller leaves it to the default) and, once it has   *)
(* returned, the value returned.                                           *)

\* the levels a caller passes: none, or one around the confidences
ConfidenceLevels ==
    {None} \cup {Some(t) : t \in {0, 5000, 8234, 8235, 9000, 9001, 10000}}

EvaluatorFrame(detect_text_response, confidence_level) ==
    [pc |-> "evaluate", detect_text_response |-> detect_text_response,
     confidence_level |-> confidence_level, returned |-> None]

\* the call: the default of the second parameter, then the body
evaluate(f) ==
    LET confidence_level ==
            IF IsNone(f.confidence_level) THEN DefaultConfidenceLevel
            ELSE f.confidence_level[1]
    IN  [f EXCEPT !.pc = "evaluated",
                  !.returned = Some(all_texts_are_clear_in_the_image(
                                   f.detect_text_response, confidence_level))]

Evaluate ==
    \E i \in DOMAIN frame :
        /\ frame[i].pc = "evaluate"
        /\ frame' = [frame EXCEPT ![i] = evaluate(frame[i])]
        /\ UNCHANGED <<used_uuids, clock>>

EvaluatorInit ==
    /\ frame \in {<<EvaluatorFrame(r, t)>> :
                     r \in DetectResponses, t \in ConfidenceLevels}
    /\ used_uuids = {}
    /\ clock = 0

EvaluatorNext == Evaluate

EvaluatorSpec == EvaluatorInit /\ [][EvaluatorNext]_vars

\* the threshold an evaluation is asked to apply
LevelAsked(f) ==
    IF f.confidence_level = <<>> THEN 9000 ELSE f.confidence_level[1]

(* C13: the evaluator returns true exactly when no word of the detection   *)
(* result has a confidence below the threshold (0.90 when none is given):  *)
(* true for a result without words, false as soon as one word is strictly  *)
(* below, whatever the other words are.                                    *)
C13_ClearIffAllWordsReachLevel ==
    \A f \in Frames :
        f.pc = "evaluated" =>
            LET words == IF f.detect_text_response.has_image_text
                         THEN f.detect_text_response.words ELSE <<>>
                below == {k \in 1..Len(words) :
                             words[k].confidence < LevelAsked(f)}
            IN  /\ f.returned \in {<<TRUE>>, <<FALSE>>}
                /\ (f.returned = <<TRUE>>) <=> (below = {})
                /\ (words = <<>>) => (f.returned = <<TRUE>>)

C13_Witness ==
    \E f \in Frames :
        /\ f.pc = "evaluated"
        /\ f.confidence_level = <<8235>>
        /\ Len(f.detect_text_response.words) = 2
        /\ f.detect_text_response.words[1].confidence = 9500
        /\ f.detect_text_response.words[2].confidence = 8234
        /\ f.returned = <<FALSE>>

-----------------------------------------------------------------------------
(* Two invocations of handler at once.  Each has its own frame (handler    *)
(* keeps everything in locals; the module's signer and oci_config are only *)
(* read), and the steps of the two interleave in any order.  The caller    *)
(* and the services are narrowed to the answers that tell uploads apart:   *)
(* two file names, results of at most one word, the documented answers of  *)
(* the document generator.                                                 *)

ConcurrentUrls ==
    {UrlPrefix \o <<"photo", ".", "png">>, UrlPrefix \o <<"photo", ".", "jpg">>}

ConcurrentEnvironment(f) ==
    /\ f.data.kind = "object" => f.data.url \in ConcurrentUrls
    /\ f.data.kind \in {"none", "object"}
    /\ f.url_status_code \in {0, 200, 404}
    /\ Len(WordsOf(f.detect_text_response)) <= 1
    /\ \A k \in 1..Len(WordsOf(f.detect_text_response)) :
           WordsOf(f.detect_text_response)[k].confidence \in {5000, 9500}
    /\ \/ f.response = NoFunctionResponse
       \/ /\ f.response.decodable
          /\ f.response.json = "object"
          /\ f.response.code \in {Some(200), Some(500)}
    /\ f.par_full_path \in {None, Some(ParLink)}

ConcurrentInit ==
    /\ frame = <<InitFrame, InitFrame>>
    /\ used_uuids = {}
    /\ clock = 0

\* a step whose inputs are among the narrowed ones
Narrowed(A) == A /\ \A i \in DOMAIN frame : ConcurrentEnvironment(frame'[i])

ConcurrentNext ==
    \/ Narrowed(Invoke)
    \/ Narrowed(ParseInput)
    \/ Narrowed(FetchImage)
    \/ Narrowed(StoreImage)
    \/ Narrowed(DetectText)
    \/ Narrowed(GenerateReport)
    \/ Narrowed(CreatePar)
    \/ Tick

ConcurrentSpec == ConcurrentInit /\ [][ConcurrentNext]_vars

\* the object names an invocation has written or asked a service to write:
\* the uploaded image, and the report derived from it
UploadKeys(f) ==
    {f.calls[k].object_name :
        k \in {n \in 1..Len(f.calls) : f.calls[n].op = "put_object"}}

ReportKeys(f) ==
    {f.calls[k].payload[1].output :
        k \in {n \in 1..Len(f.calls) : f.calls[n].op = "invoke_function"}}
    \cup {f.calls[k].par_details[1].object_name :
        k \in {n \in 1..Len(f.calls) :
                  f.calls[n].op = "create_preauthenticated_request"}}

(* C14: two invocations, one after the other or interleaved, never write   *)
(* the same object: their upload keys differ, also when the file names are *)
(* the same, each key being "part3/" + a fresh identifier + "-" + the file *)
(* name, and so do the report keys derived from them.                      *)
C14_KeysNeverCollide ==
    \A i, j \in DOMAIN frame :
        i /= j =>
            /\ UploadKeys(frame[i]) \cap UploadKeys(frame[j]) = {}
            /\ ReportKeys(frame[i]) \cap ReportKeys(frame[j]) = {}
            /\ \A key \in UploadKeys(frame[i]) :
                   /\ Len(key) = 3 + Len(frame[i].file_name)
                   /\ key[1] = "part3/"
                   /\ key[3] = "-"
                   /\ SubSeq(key, 4, Len(key)) = frame[i].file_name

C14_Witness ==
    /\ Len(frame) = 2
    /\ frame[1].file_name = frame[2].file_name
    /\ \A i \in {1, 2} :
           /\ UploadKeys(frame[i]) /= {}
           /\ ReportKeys(frame[i]) /= {}
    /\ frame[1].pc = "par"
    /\ frame[2].pc = "par"

-----------------------------------------------------------------------------
\* the five external calls of handler, in the order of its code
ExternalOps ==
    <<"requests.get", "put_object", "detect_text", "invoke_function",
      "create_preauthenticated_request">>

(* C15: in one invocation each external call (fetch, upload, detection,    *)
(* document generator, PAR creation) is made at most once, whatever the    *)
(* services answer: no step is tried again.                                *)
C15_EachCallAtMostOnce ==
    \A f \in Frames :
        /\ \A k \in 1..Len(f.calls) :
               \E n \in DOMAIN ExternalOps : f.calls[k].op = ExternalOps[n]
        /\ \A n \in DOMAIN ExternalOps : NumCalls(f, ExternalOps[n]) <= 1

C15_Witness ==
    \E f \in Frames :
        /\ Done(f)
        /\ f.object_storage_response = 500
        /\ NumCalls(f, "requests.get") = 1
        /\ NumCalls(f, "put_object") = 1
        /\ Len(f.calls) = 2

-----------------------------------------------------------------------------
(* The payload builder called on its own: a frame of                       *)
(* generate_doc_gen_data_content_from_ai_response holds the detection      *)
(* result it is given and, once it has returned, the data_content.         *)

\* confidences (1/10000) on both sides of a rounding step, none a tie
RoundingConfidences == {0, 4, 6, 8234, 8236, 9996, 10000}

\* coordinates (1/10000) on both sides of a rounding step, none a tie
RoundingCoordinates == {0, 1234, 1251, 9949, 10000}

\* rectangles given by their first and third vertex
RoundingPolygons ==
    {[normalized_vertices |->
         << [x |-> x1, y |-> y1], [x |-> x3, y |-> y1],
            [x |-> x3, y |-> y3], [x |-> x1, y |-> y3] >>] :
        x1 \in RoundingCoordinates, y1 \in RoundingCoordinates,
        x3 \in RoundingCoordinates, y3 \in RoundingCoordinates}

RoundingWords ==
    {[text |-> "STOP", confidence |-> c, bounding_polygon |-> p] :
        c \in RoundingConfidences, p \in RoundingPolygons}

BuilderFrame(detect_text_response) ==
    [pc |-> "build", detect_text_response |-> detect_text_response,
     data_content |-> None]

build(f) ==
    [f EXCEPT !.pc = "built",
              !.data_content = Some(
                  generate_doc_gen_data_content_from_ai_response(
                      f.detect_text_response, bucket_name, namespace,
                      <<"part3/", "1", "-", "photo", ".", "png">>))]

Build ==
    \E i \in DOMAIN frame :
        /\ frame[i].pc = "build"
        /\ frame' = [frame EXCEPT ![i] = build(frame[i])]
        /\ UNCHANGED <<used_uuids, clock>>

BuilderInit ==
    /\ frame \in {<<BuilderFrame([has_image_text |-> TRUE, words |-> <<w>>])>> :
                     w \in RoundingWords}
    /\ used_uuids = {}
    /\ clock = 0

BuilderNext == Build

BuilderSpec == BuilderInit /\ [][BuilderNext]_vars

\* p is an integer nearest to n / d
Nearest(p, n, d) == 2 * (d * p - n) <= d /\ 2 * (n - d * p) <= d

-----------------------------------------------------------------------------
\* the k-th stage of the invocation (1 fetch .. 4 document generator)
\* completed successfully
StageSucceeded(f, k) ==
    /\ ~f.calls[k].raised
    /\ k = 1 => f.url_status_code = 200
    /\ k = 2 => f.object_storage_response = 200
    /\ k = 4 => (f.response.status_code = 200 /\ f.response.code = Some(200))

\* the calls made so far are the first calls of the code's order
CallsArePrefix(f) ==
    /\ Len(f.calls) <= Len(ExternalOps)
    /\ \A k \in 1..Len(f.calls) : f.calls[k].op = ExternalOps[k]

(* C17: the external calls of an invocation are made in the order fetch,   *)
(* upload, detection, document generator, PAR creation, the calls made so  *)
(* far always being the first ones of that order, and a call is made only  *)
(* after the call before it completed successfully.  The code creates the  *)
(* PAR also after a document generator call that answered an HTTP status   *)
(* other than 200.                                                         *)
C17_CallsInOrderAfterSuccess ==
    \A f \in Frames :
        /\ CallsArePrefix(f)
        /\ \A k \in 2..Len(f.calls) : StageSucceeded(f, k - 1)

-----------------------------------------------------------------------------
(* An invocation whose statements are run: every call of a service returns *)
(* or raises (each action takes the answer in the same step), and the      *)
(* interpreter goes on to the next statement.                              *)

HandlerStep ==
    \/ Invoke
    \/ ParseInput
    \/ FetchImage
    \/ StoreImage
    \/ DetectText
    \/ GenerateReport
    \/ CreatePar

LiveSpec == Init /\ [][Next]_vars /\ WF_vars(HandlerStep)

\* the one outcome of an invocation that has ended: a response with one of
\* the three statuses, or an exception, and its failure logged once
OneOutcome(f) ==
    \/ /\ f.result.kind = "response"
       /\ f.result.status_code \in {200, 204, 400}
       /\ f.result.exception = ""
       /\ f.result.status_code = 400 =>
              /\ Len(f.log) = 1
              /\ f.log[1].level = "ERROR"
       /\ \A k \in 1..Len(f.log) : f.log[k].level = "ERROR"
    \/ /\ f.result.kind = "raise"
       /\ f.result.exception /= ""
       /\ f.result.response_data = <<>>
       /\ f.result.status_code \notin {200, 204, 400}
       /\ Len(f.log) = 1
       /\ f.log[1].level = "INFO"

(* C18: when every call of a service returns or raises, each invocation    *)
(* eventually ends, and it ends in exactly one outcome: either one         *)
(* response with status 200, 204 or 400, or one exception raised to the    *)
(* caller, never both; there is no outcome before the end, the outcome     *)
(* never changes afterwards, and a failure is logged exactly once.         *)
C18_EndsInOneOutcome ==
    /\ <>(\A i \in DOMAIN frame : Done(frame[i]))
    /\ [](\A i \in DOMAIN frame :
              IF Done(frame[i]) THEN OneOutcome(frame[i])
              ELSE frame[i].result = NoResult)
    /\ [][\A i \in DOMAIN frame :
              Done(frame[i]) => frame'[i] = frame[i]]_vars

C18_Witness ==
    \E f \in Frames :
        /\ Done(f)
        /\ f.result.kind = "raise"
        /\ Len(f.calls) = 5
        /\ f.response.code = Some(200)

-----------------------------------------------------------------------------
\* the calls invocation i makes in the step
NewCalls(i) ==
    {frame'[i].calls[k] : k \in (Len(frame[i].calls) + 1)..Len(frame'[i].calls)}

(* C19: whenever an invocation asks for a PAR, the expiry time it asks for *)
(* is 60 minutes after the time of the request, and the PAR asked for      *)
(* allows reading one object, the report of the invocation's image, and    *)
(* denies listing the bucket.                                              *)
C19_ParIsReadOnlyForOneHour ==
    [][\A i \in DOMAIN frame : \A call \in NewCalls(i) :
           call.op = "create_preauthenticated_request" =>
               /\ call.par_details /= <<>>
               /\ call.par_details[1].time_expires = clock + 60
               /\ call.par_details[1].access_type = "ObjectRead"
               /\ call.par_details[1].bucket_listing_action = "Deny"
               /\ call.par_details[1].object_name
                      = frame[i].image_name \o <<".", "pdf">>
               /\ frame[i].image_name /= <<>>]_vars

C19_Witness ==
    \E f \in Frames : \E k \in 1..Len(f.calls) :
        /\ f.calls[k].op = "create_preauthenticated_request"
        /\ f.calls[k].par_details[1].time_expires = 61
        /\ f.calls[k].par_details[1].access_type = "ObjectRead"
        /\ clock = 1

-----------------------------------------------------------------------------
(* ApiKeyAuthentication/func.py: the handler that validates an API key.    *)
(* A frame holds the body handed to the invocation, its position (before   *)
(* the logging of the body, before the try, done), its log and result.     *)

AuthorizedStatusCode == 200
UnauthorizedStatusCode == 401

valid_api_keys ==
    <<"11cb5027-28d2-4359-b8e8-cc209a963a0d",
      "6340df79-56c7-401d-b6d0-2cdfb0591ea6",
      "58717bb9-44a1-4072-b498-c78c22a85919">>

\* keys a caller may send: the configured ones, one of them in upper case,
\* one unknown, the empty one
ApiKeys ==
    {valid_api_keys[k] : k \in DOMAIN valid_api_keys}
    \cup {"11CB5027-28D2-4359-B8E8-CC209A963A0D",
          "00000000-0000-0000-0000-000000000000", ""}

\* a body: whether data was passed at all, whether its bytes decode as
\* UTF-8, what json.loads makes of the bytes (it also reads UTF-16 and
\* UTF-32), what "data" is, and what "api-key" is in it
AuthBody(given, utf8, json, data, key_kind, api_key) ==
    [given |-> given, utf8 |-> utf8, json |-> json, data |-> data,
     key_kind |-> key_kind, api_key |-> api_key]

AuthBodies ==
    {AuthBody(FALSE, TRUE, "invalid", "absent", "absent", "")}
    \cup {AuthBody(TRUE, u, "invalid", "absent", "absent", "") :
             u \in BOOLEAN}
    \cup {AuthBody(TRUE, TRUE, "not_object", "absent", "absent", "")}
    \cup {AuthBody(TRUE, TRUE, "object", d, "absent", "") :
             d \in {"absent", "null", "not_object", "object"}}
    \cup {AuthBody(TRUE, TRUE, "object", "object", "not_str", "")}
    \cup {AuthBody(TRUE, u, "object", "object", "str", k) :
             u \in BOOLEAN, k \in ApiKeys}

InitAuthFrame ==
    [pc |-> "auth_start",
     body |-> AuthBody(FALSE, TRUE, "invalid", "absent", "absent", ""),
     log |-> <<>>, result |-> NoResult]

\* an exception leaves handler: nothing catches it outside the try
Propagate(f, ex) ==
    [f EXCEPT !.pc = "done",
              !.result = [kind |-> "raise", status_code |-> 0,
                          response_data |-> <<>>, content_type |-> "",
                          exception |-> ex]]

\* lines 23-24: the body is decoded and logged, before the try
log_body(f) ==
    IF ~f.body.given THEN Propagate(f, "AttributeError")
    ELSE IF ~f.body.utf8 THEN Propagate(f, "UnicodeDecodeError")
    ELSE [f EXCEPT !.pc = "validate",
                   !.log = Append(@, LogEntry("INFO", <<"body">>))]

\* json.dumps({"active": True})
Authorized ==
    [kind |-> "response", status_code |-> AuthorizedStatusCode,
     response_data |-> <<"{">> \o JsonString(<<"active">>)
                       \o <<": ", "true", "}">>,
     content_type |-> "", exception |-> ""]

\* json.dumps({"active": False, "wwwAuthenticate": "API-key"})
Unauthorized ==
    [kind |-> "response", status_code |-> UnauthorizedStatusCode,
     response_data |-> <<"{">> \o JsonString(<<"active">>)
                       \o <<": ", "false", ", ">>
                       \o JsonString(<<"wwwAuthenticate">>) \o <<": ">>
                       \o JsonString(<<"API-key">>) \o <<"}">>,
     content_type |-> "", exception |-> ""]

\* lines 44-53: the except clause logs and passes, then the 401 response
unauthorized_after(f, ex) ==
    Return([f EXCEPT !.log = @ \o <<LogEntry("INFO",
                                     <<"error parsing json payload: ", ex>>),
                                    LogEntry("INFO", <<"Result: Unauthorized">>)>>],
           Unauthorized)

\* lines 31-53: the try, and the 401 response below it
validate(f) ==
    IF f.body.json = "invalid" THEN unauthorized_after(f, "JSONDecodeError")
    ELSE IF f.body.json /= "object" \/ f.body.data /= "object"
    THEN unauthorized_after(f, "AttributeError")
    ELSE IF /\ f.body.key_kind = "str"
            /\ \E k \in DOMAIN valid_api_keys : valid_api_keys[k] = f.body.api_key
    THEN Return([f EXCEPT !.log = Append(@, LogEntry("INFO",
                                         <<"Result: Authorized">>))],
                Authorized)
    ELSE Return([f EXCEPT !.log = Append(@, LogEntry("INFO",
                                         <<"Result: Unauthorized">>))],
                Unauthorized)

AuthInvoke ==
    \E i \in DOMAIN frame :
        /\ frame[i].pc = "auth_start"
        /\ \E body \in AuthBodies :
              Step(i, [frame[i] EXCEPT !.pc = "log_body", !.body = body])

AuthLogBody ==
    \E i \in DOMAIN frame :
        /\ frame[i].pc = "log_body"
        /\ Step(i, log_body(frame[i]))

AuthValidate ==
    \E i \in DOMAIN frame :
        /\ frame[i].pc = "validate"
        /\ Step(i, validate(frame[i]))

AuthInit ==
    /\ frame = <<InitAuthFrame, InitAuthFrame>>
    /\ used_uuids = {}
    /\ clock = 0

AuthNext ==
    \/ AuthInvoke
    \/ AuthLogBody
    \/ AuthValidate

AuthSpec == AuthInit /\ [][AuthNext]_vars

\* the body is JSON whose data.api-key is one of the three configured keys
CarriesConfiguredKey(body) ==
    /\ body.json = "object"
    /\ body.data = "object"
    /\ body.key_kind = "str"
    /\ body.api_key \in {"11cb5027-28d2-4359-b8e8-cc209a963a0d",
                         "6340df79-56c7-401d-b6d0-2cdfb0591ea6",
                         "58717bb9-44a1-4072-b498-c78c22a85919"}

\* the invocation answered the status with the JSON text as its body
Answered(f, status_code, text) ==
    /\ f.result.kind = "response"
    /\ f.result.status_code = status_code
    /\ f.result.response_data = text

(* C20: for every body handed to the API-key handler, the answer is 200    *)
(* {"active": true} exactly when the body is JSON whose data.api-key is    *)
(* one of the three configured keys, and otherwise 401                     *)
(* {"active": false, "wwwAuthenticate": "API-key"}; no exception leaves    *)
(* the handler.  The code decodes the body as UTF-8 for the log before     *)
(* its try, so a body that is no UTF-8 ends the handler in an exception.   *)
C20_KeyDecidesAnswer ==
    \A f \in Frames :
        (Done(f) /\ f.body.given) =>
            IF CarriesConfiguredKey(f.body)
            THEN Answered(f, 200, <<"{", "\"", "active", "\"", ": ", "true", "}">>)
            ELSE Answered(f, 401,
                     <<"{", "\"", "active", "\"", ": ", "false", ", ",
                       "\"", "wwwAuthenticate", "\"", ": ",
                       "\"", "API-key", "\"", "}">>)

====
